---- MODULE Spec2Model ----
(***************************************************************************)
(* A model of the useMediaRecorder hook (src/use-media-recorder.ts): the   *)
(* React state and refs of one hook instance, the browser objects it       *)
(* drives (capture streams, MediaRecorder objects and their event queues)  *)
(* and the callbacks it invokes.                                           *)
(*                                                                         *)
(* One action is one synchronous run of JavaScript: a call the component   *)
(* makes, the continuation of an awaited promise, or one event the browser *)
(* delivers. React batches the setState calls of such a run, so the value  *)
(* a state variable has after an action is the last value the run set.     *)
(***************************************************************************)
EXTENDS Integers, Sequences, FiniteSets, TLC

VARIABLES
    props,                \* the arguments of the hook (l.52-63)
    browser,              \* what the browser offers (window, navigator.mediaDevices)
    status,               \* useState, l.87
    error,                \* useState, l.86
    mediaBlob,            \* useState, l.90: None or Some(blob)
    activeMediaRecorder,  \* useState, l.88-89: a recorder id or Null
    browserSupportError,  \* useState, l.83-85
    isAudioMuted,         \* useState, l.91
    errorSeen,            \* `error` as the closures of the render in use read it
    effectPending,        \* the capability effect (l.257-317) has yet to run for these props
    mediaChunks,          \* useRef, l.79
    mediaStream,          \* useRef, l.80: a stream id or Null
    mediaRecorder,        \* useRef, l.81: a recorder id or Null
    streams,              \* every MediaStream there is, by id
    recs,                 \* every MediaRecorder the hook constructed, by id
    pending,              \* the suspended async calls (awaiting acquisition)
    cb,                   \* per recorder: the callbacks invoked for its session
    errs,                 \* errors raised, errors passed to onError, rejected calls
    calls,                \* calls made: by the component, and to the browser
    last                  \* the handler that ran last, and the recorder it ran for

vars == <<props, browser, status, error, mediaBlob, activeMediaRecorder,
          browserSupportError, isAudioMuted, errorSeen, effectPending,
          mediaChunks, mediaStream, mediaRecorder, streams, recs, pending,
          cb, errs, calls, last>>

(***************************************************************************)
(* Bounds of the model.                                                    *)
(***************************************************************************)
\* calls of startRecording in one run
MaxStarts == 2

\* what the environment does in one run: calls of startRecording and of
\* acquireMediaStream, timeslice chunks, and faults, taken together
MaxInputs == 3

(***************************************************************************)
(* Values.                                                                 *)
(***************************************************************************)
Null == 0

None == <<>>

Some(x) == <<x>>

Origins == {"acq", "ctor", "start", "rec"}

NoError == [origin |-> "none", n |-> 0]

NoSupportError == [kind |-> "none", names |-> {}]

DefaultMime == "webm"

NoType == "none"

BoolC(b) == [obj |-> FALSE, on |-> b, keys |-> {}]

ObjC(ks) == [obj |-> TRUE, on |-> TRUE, keys |-> ks]

\* MediaRecorderStatus, l.42-50
MediaRecorderStatus ==
    {"idle", "acquiring_media", "ready", "recording", "paused", "stopping",
     "stopped", "failed"}

(***************************************************************************)
(* The hook instance as one record, so that a handler is a function from   *)
(* the instance before its run to the instance after it, and a handler     *)
(* that calls another handler is the composition of the two.               *)
(***************************************************************************)
Cur ==
    [status |-> status, error |-> error, mediaBlob |-> mediaBlob,
     activeMediaRecorder |-> activeMediaRecorder, isAudioMuted |-> isAudioMuted,
     mediaChunks |-> mediaChunks, mediaStream |-> mediaStream,
     mediaRecorder |-> mediaRecorder, streams |-> streams, recs |-> recs,
     pending |-> pending, cb |-> cb, errs |-> errs, calls |-> calls]

Install(s) ==
    /\ status' = s.status
    /\ error' = s.error
    /\ mediaBlob' = s.mediaBlob
    /\ activeMediaRecorder' = s.activeMediaRecorder
    /\ isAudioMuted' = s.isAudioMuted
    /\ mediaChunks' = s.mediaChunks
    /\ mediaStream' = s.mediaStream
    /\ mediaRecorder' = s.mediaRecorder
    /\ streams' = s.streams
    /\ recs' = s.recs
    /\ pending' = s.pending
    /\ cb' = s.cb
    /\ errs' = s.errs
    /\ calls' = s.calls

RemoveAt(q, i) == [j \in 1..(Len(q) - 1) |-> IF j < i THEN q[j] ELSE q[j + 1]]

Count(s, field) == [s EXCEPT !.calls[field] = @ + 1]

\* an error object raised by `origin`: the n-th of that origin
Raise(s, origin) == [s EXCEPT !.errs.raised[origin] = @ + 1]

Raised(s, origin) == [origin |-> origin, n |-> s.errs.raised[origin]]

(***************************************************************************)
(* The browser's objects.                                                  *)
(***************************************************************************)
\* MediaStream returned by getUserMedia/getDisplayMedia: live, audio enabled
NewStream == [live |-> TRUE, audioOn |-> TRUE, custom |-> FALSE]

\* MediaRecorder: "inactivate the recorder", then the queued events follow; why
\* says what ended the recording ("stop", "error", "tracks")
Inactivate(rec, why, evs) ==
    [rec EXCEPT !.state = "inactive", !.ended = why, !.queue = evs]

\* track.stop() on every track of stream id: the stream is no longer live, and a
\* recorder still recording it is stopped by the browser (dataavailable, stop)
StopTracks(s, id) ==
    [s EXCEPT
        !.streams[id].live = FALSE,
        !.recs = [r \in DOMAIN s.recs |->
                    IF s.recs[r].stream = id /\ s.recs[r].state # "inactive"
                    THEN Inactivate(s.recs[r], "tracks", <<"data", "stop">>)
                    ELSE s.recs[r]]]

\* MediaRecorder.stop(): nothing on an inactive recorder; otherwise inactivate and
\* queue a task that fires dataavailable (the data gathered so far) and stop
RecStop(rec) ==
    IF rec.state = "inactive"
    THEN rec
    ELSE Inactivate(rec, "stop", <<"data", "stop">>)

\* the type of the blobs a recorder built now delivers
RecorderMime == IF props.mimeOpt # NoType THEN props.mimeOpt ELSE DefaultMime

\* new MediaRecorder(stream, mediaRecorderOptions) throws: no such constructor,
\* or a mimeType the browser cannot record
CtorThrows ==
    \/ ~browser.hasMediaRecorder
    \/ props.mimeOpt # NoType /\ props.mimeOpt \notin browser.typeSupported

\* mediaStreamConstraints.audio is truthy (l.113)
AudioTruthy == props.audio.on

(***************************************************************************)
(* The handlers of the hook, l.93-255.                                     *)
(***************************************************************************)
\* l.139-145
releaseMediaStream(s) ==
    IF s.mediaStream # Null
    THEN LET s1 == StopTracks(s, s.mediaStream)
         IN  [s1 EXCEPT !.mediaStream = Null, !.status = "idle"]
    ELSE s

\* handleDataAvailable without the size test of l.148
handleDataAvailableKeepsEmpty(s, r, c) ==
    [s EXCEPT !.mediaChunks = Append(@, c), !.cb[r].onData = Append(@, c)]

\* l.147-152: the listener of recorder r receives chunk c
handleDataAvailable(s, r, c) ==
    LET s1 == IF c.size # 0
              THEN [s EXCEPT !.mediaChunks = Append(@, c)]
              ELSE s
    IN  [s1 EXCEPT !.cb[r].onData = Append(@, c)]

\* new Blob(chunks, bag): the chunks' contents in order, typed by the bag
NewBlob(chunks, type) == [parts |-> chunks, type |-> type]

\* the spread of l.159-162 the other way round: { ...blobOptions, type: ... }
BlobPropertyBagTypeLast(sampleChunk) == sampleChunk.type

\* l.159-162: { type: sampleChunk.type, ...blobOptions }
BlobPropertyBag(sampleChunk) ==
    IF props.blobOptions # NoType THEN props.blobOptions ELSE sampleChunk.type

\* l.155-167: the pair [mediaBlob, mimeType]
AssembleBlob(chunks) ==
    IF Len(chunks) >= 1
    THEN [mediaBlob |-> Some(NewBlob(chunks, BlobPropertyBag(chunks[1]))),
          mimeType |-> chunks[1].type]
    ELSE [mediaBlob |-> None, mimeType |-> ""]

\* l.154-172: the stop listener of recorder r
handleStop(s, r) ==
    LET res == AssembleBlob(s.mediaChunks)
    IN  [s EXCEPT !.status = "stopped",
                  !.mediaBlob = res.mediaBlob,
                  !.cb[r].onStop = Append(@, res)]

\* l.174-178: the error listener; e is the event's error
handleError(s, e) ==
    [s EXCEPT !.error = e,
              !.status = "idle",
              !.errs.reported[e.origin] = @ + 1]

\* l.180-184
handleTryCatchStart(s, e) ==
    [s EXCEPT !.error = e,
              !.status = "idle",
              !.errs.reported[e.origin] = @ + 1]

\* l.194-211: what startRecording does with the stream it obtained. `fresh`: no
\* render has happened since the call, so the listeners it registers are the very
\* functions a stopRecording of the current render names. startOk: rec.start
\* does not throw.
StartWithStream(s, stream, fresh, startOk) ==
    IF CtorThrows
    THEN \* l.195 throws outside the try: the promise of startRecording rejects
         [Raise(s, "ctor") EXCEPT !.errs.rejected = @ + 1]
    ELSE LET r == Len(s.recs) + 1
             rec == [state |-> "inactive", stream |-> stream, listening |-> TRUE,
                     fresh |-> fresh, queue |-> <<>>, dispatching |-> FALSE,
                     ended |-> "", emitted |-> <<>>,
                     type |-> RecorderMime]
             s1 == [s EXCEPT
                      !.recs = Append(@, rec),
                      !.cb = Append(@, [onStart |-> 0, onStop |-> <<>>,
                                        onData |-> <<>>]),
                      !.mediaRecorder = r,
                      !.activeMediaRecorder = r]
             s2 == Count(s1, "recStart")
         IN  IF startOk /\ s.streams[stream].live
             THEN [s2 EXCEPT !.recs[r].state = "recording",
                             !.status = "recording",
                             !.cb[r].onStart = @ + 1]
             ELSE LET s3 == Raise(s2, "start")
                  IN  handleTryCatchStart(s3, Raised(s3, "start"))

\* l.192-212: startRecording from the assignment of `stream` on
StartBody(s, stream, fresh, startOk) ==
    LET s1 == [s EXCEPT !.mediaChunks = <<>>]
    IN  IF stream # Null THEN StartWithStream(s1, stream, fresh, startOk) ELSE s1

\* l.128-131: acquisition succeeded with stream id
AcquireDone(s, id) == [s EXCEPT !.mediaStream = id, !.status = "ready"]

\* the catch of l.132-136 leaving the status of a recorder error
AcquireFailIdle(s) ==
    LET s1 == Raise(s, "acq")
    IN  [s1 EXCEPT !.error = Raised(s1, "acq"), !.status = "idle"]

\* l.132-136: acquisition threw
AcquireFail(s) ==
    LET s1 == Raise(s, "acq")
    IN  [s1 EXCEPT !.error = Raised(s1, "acq"), !.status = "failed"]

\* l.93-126: acquireMediaStream up to its first suspension, called by `kind`
\* ("start": from startRecording l.191, "acquire": by the component)
AcquireBegin(s, kind) ==
    LET s1 == IF errorSeen # NoError THEN [s EXCEPT !.error = NoError] ELSE s
        s2 == [s1 EXCEPT !.status = "acquiring_media"]
        wait(stage) == [kind |-> kind, stage |-> stage, fresh |-> TRUE,
                        stream |-> Null]
    IN  IF props.customMediaStream
        THEN LET s3 == [s2 EXCEPT !.mediaStream = 1, !.status = "ready"]
             IN  IF kind = "start"
                 THEN [s3 EXCEPT !.pending = Append(@, wait("micro"))]
                 ELSE s3
        ELSE IF ~browser.hasMediaDevices
        THEN [s2 EXCEPT !.pending = Append(@, wait("nodev"))]
        ELSE IF props.recordScreen
        THEN [Count(s2, "gdm") EXCEPT !.pending = Append(@, wait("display"))]
        ELSE [Count(s2, "gum") EXCEPT !.pending = Append(@, wait("user"))]

\* l.186-191: startRecording up to the stream it has or awaits
StartBegin(s, startOk) ==
    LET s1 == IF errorSeen # NoError THEN [s EXCEPT !.error = NoError] ELSE s
        s2 == Count(s1, "startCalls")
    IN  IF s2.mediaStream # Null
        THEN StartBody(s2, s2.mediaStream, TRUE, startOk)
        ELSE AcquireBegin(s2, "start")

\* the continuation of pending call i once the promise it awaits settles (ok:
\* fulfilled), l.107-136 and, for a call of startRecording, l.191-212
Settle(s, i, ok, startOk) ==
    LET p == s.pending[i]
        rest == [s EXCEPT !.pending = RemoveAt(@, i)]
        finish(t, stream) ==
            IF p.kind = "start" THEN StartBody(t, stream, p.fresh, startOk) ELSE t
        id == Len(s.streams) + 1
    IN  CASE p.stage = "micro" -> finish(rest, 1)
          [] p.stage = "nodev" -> finish(AcquireFail(rest), Null)
          [] p.stage = "user" ->
                IF ok
                THEN finish(AcquireDone(
                         [rest EXCEPT !.streams = Append(@, NewStream)], id), id)
                ELSE finish(AcquireFail(rest), Null)
          [] p.stage = "display" ->
                IF ~ok THEN finish(AcquireFail(rest), Null)
                ELSE LET t == [s EXCEPT !.streams = Append(@, NewStream)]
                     IN  IF AudioTruthy
                         THEN [Count(t, "gum") EXCEPT
                                  !.pending[i].stage = "audio",
                                  !.pending[i].stream = id]
                         ELSE finish(AcquireDone(
                                  [t EXCEPT !.pending = RemoveAt(@, i)], id), id)
          [] p.stage = "audio" ->
                IF ok
                THEN finish(AcquireDone(rest, p.stream), p.stream)
                ELSE finish(AcquireFail(rest), Null)

\* pauseRecording testing the recorder but not its state (l.223)
pauseRecordingAnyState(s) ==
    LET rec == s.mediaRecorder
    IN  IF rec # Null
        THEN [s EXCEPT !.recs[rec].state = "paused", !.status = "paused"]
        ELSE s

\* l.221-227
pauseRecording(s) ==
    LET rec == s.mediaRecorder
    IN  IF rec # Null /\ s.recs[rec].state = "recording"
        THEN [s EXCEPT !.recs[rec].state = "paused", !.status = "paused"]
        ELSE s

\* l.229-235
resumeRecording(s) ==
    LET rec == s.mediaRecorder
    IN  IF rec # Null /\ s.recs[rec].state = "paused"
        THEN [s EXCEPT !.recs[rec].state = "recording", !.status = "recording"]
        ELSE s

\* l.245-247: removeEventListener names the handlers of the current render; they
\* are the registered ones only if no render came between
RemoveListeners(rec) ==
    IF rec.fresh THEN [rec EXCEPT !.listening = FALSE] ELSE rec

\* stopRecording without the test of l.239
stopRecordingUnguarded(s) ==
    LET rec == s.mediaRecorder
        s1 == [s EXCEPT !.status = "stopping", !.mediaRecorder = Null]
        s2 == IF rec # Null
              THEN [s1 EXCEPT !.recs[rec] = RemoveListeners(RecStop(@))]
              ELSE s1
    IN  IF ~props.customMediaStream THEN releaseMediaStream(s2) ELSE s2

\* l.237-255
stopRecording(s) ==
    LET rec == s.mediaRecorder
    IN  IF rec # Null
        THEN LET s1 == [s EXCEPT !.status = "stopping",
                                 !.recs[rec] = RemoveListeners(RecStop(@)),
                                 !.mediaRecorder = Null]
             IN  IF ~props.customMediaStream THEN releaseMediaStream(s1) ELSE s1
        ELSE s

\* l.214-219
muteAudio(s, mute) ==
    LET s1 == IF s.mediaStream # Null
              THEN [s EXCEPT !.streams[s.mediaStream].audioOn = ~mute]
              ELSE s
    IN  [s1 EXCEPT !.isAudioMuted = mute]

(***************************************************************************)
(* The capability check, l.257-365.                                        *)
(***************************************************************************)
SupportError(kind, names) == [kind |-> kind, names |-> names]

\* l.344-346
isObject(o) == o.obj

\* ensureConstraintsSupported keeping the supported names instead (l.356)
ensureConstraintsSupportedInverted(supported, requestedConstraints) ==
    LET unsupported == {n \in requestedConstraints.keys : n \in supported}
    IN  IF unsupported # {}
        THEN SupportError("constraints", unsupported)
        ELSE NoSupportError

\* l.348-365: the requested names the browser does not list, or none
ensureConstraintsSupported(supported, requestedConstraints) ==
    LET unsupported == {n \in requestedConstraints.keys : n \notin supported}
    IN  IF unsupported # {}
        THEN SupportError("constraints", unsupported)
        ELSE NoSupportError

\* l.258-316: the message the effect sets, NoSupportError when it sets none
CapabilityError ==
    LET videoError ==
            IF isObject(props.video)
            THEN ensureConstraintsSupported(browser.supported, props.video)
            ELSE NoSupportError
        audioError ==
            IF isObject(props.audio)
            THEN ensureConstraintsSupported(browser.supported, props.audio)
            ELSE NoSupportError
    IN  IF ~browser.hasMediaRecorder THEN SupportError("MediaRecorder", {})
        ELSE IF props.recordScreen /\ ~browser.hasMediaDevices
        THEN NoSupportError   \* l.265 throws reading mediaDevices.getDisplayMedia
        ELSE IF props.recordScreen /\ ~browser.hasGetDisplayMedia
        THEN SupportError("screen", {})
        ELSE IF ~browser.hasMediaDevices THEN SupportError("mediaDevices", {})
        ELSE IF ~browser.hasGetSupportedConstraints
        THEN SupportError("getSupportedConstraints", {})
        ELSE IF videoError # NoSupportError THEN videoError
        ELSE IF audioError # NoSupportError THEN audioError
        ELSE IF props.mimeOpt # NoType /\ props.mimeOpt \notin browser.typeSupported
        THEN SupportError("mimeType", {})
        ELSE NoSupportError

(***************************************************************************)
(* Actions.                                                                *)
(***************************************************************************)
Ran(op, arg) == last' = [op |-> op, arg |-> arg]

Fixed == UNCHANGED <<props, browser>>

\* the faults of the environment so far: rejected acquisitions, throwing
\* rec.start calls, failing recorders
Faults == errs.raised["acq"] + errs.raised["start"] + errs.raised["rec"]

Inputs == calls.startCalls + calls.acquireCalls + calls.slices + Faults

MoreInput == Inputs < MaxInputs

MayFail(ok) == ok \/ MoreInput

\* a continuation that resumes in the same task as the call that suspended it
Microtask == \E i \in DOMAIN pending : pending[i].stage = "micro"

\* the browser is in the task that fires the queued events of a recorder: the
\* events of one task are fired one after the other, nothing runs in between
Dispatching == \E r \in DOMAIN recs : recs[r].queue # <<>> /\ recs[r].dispatching

\* the component may call the hook's functions once it is mounted
Mounted == ~effectPending /\ ~Dispatching

\* the browser runs a task of its own only between the component's tasks
BrowserTurn == Mounted /\ ~Microtask

\* useEffect, l.257-317
CapabilityCheck ==
    /\ effectPending
    /\ effectPending' = FALSE
    /\ browserSupportError' =
          IF CapabilityError # NoSupportError
          THEN CapabilityError
          ELSE browserSupportError
    /\ Ran("effect", Null)
    /\ UNCHANGED <<status, error, mediaBlob, activeMediaRecorder, isAudioMuted,
                   errorSeen, mediaChunks, mediaStream, mediaRecorder, streams,
                   recs, pending, cb, errs, calls>>
    /\ Fixed

\* the component renders again and from now on calls the functions of the new
\* render: their closures read the current `error`, and the handlers they name
\* are new function objects, not the ones an earlier render registered
Render ==
    /\ Mounted
    /\ \/ errorSeen # error
       \/ \E r \in DOMAIN recs : recs[r].fresh
       \/ \E i \in DOMAIN pending : pending[i].fresh
    /\ errorSeen' = error
    /\ recs' = [r \in DOMAIN recs |-> [recs[r] EXCEPT !.fresh = FALSE]]
    /\ pending' = [i \in DOMAIN pending |-> [pending[i] EXCEPT !.fresh = FALSE]]
    /\ UNCHANGED <<status, error, mediaBlob, activeMediaRecorder, isAudioMuted,
                   browserSupportError, effectPending, mediaChunks, mediaStream,
                   mediaRecorder, streams, cb, errs, calls, last>>
    /\ Fixed

Quiet == UNCHANGED <<browserSupportError, errorSeen, effectPending>> /\ Fixed

\* the dependencies of the capability effect, l.317
EffectDeps(p) == <<p.video, p.audio, p.mimeOpt, p.recordScreen>>

\* the component renders the hook with other arguments, taken from ps: a render
\* as above, after which the effect runs again if one of its dependencies changed
ChangeProps(ps) ==
    /\ Mounted
    /\ props' \in ps
    /\ props' # props
    /\ props'.customMediaStream = props.customMediaStream
    /\ effectPending' = (EffectDeps(props') # EffectDeps(props))
    /\ errorSeen' = error
    /\ recs' = [r \in DOMAIN recs |-> [recs[r] EXCEPT !.fresh = FALSE]]
    /\ pending' = [i \in DOMAIN pending |-> [pending[i] EXCEPT !.fresh = FALSE]]
    /\ Ran("render", Null)
    /\ UNCHANGED <<browser, status, error, mediaBlob, activeMediaRecorder,
                   isAudioMuted, browserSupportError, mediaChunks, mediaStream,
                   mediaRecorder, streams, cb, errs, calls>>

\* l.186-212, up to the await of l.191 when no stream is held
StartRecording(startOk) ==
    /\ Mounted
    /\ MoreInput
    /\ calls.startCalls < MaxStarts
    /\ startOk \/ Inputs + 1 < MaxInputs
    /\ Install(StartBegin(Cur, startOk))
    /\ Ran("startRecording", mediaRecorder')
    /\ Quiet

\* l.93-137, up to its first await
AcquireMediaStream ==
    /\ Mounted
    /\ MoreInput
    /\ Install(AcquireBegin(Count(Cur, "acquireCalls"), "acquire"))
    /\ Ran("acquireMediaStream", Null)
    /\ Quiet

\* the promise pending call i awaits settles, and the call runs on
SettleAcquisition(i, ok, startOk) ==
    /\ Mounted
    /\ i \in DOMAIN pending
    /\ pending[i].stage = "micro" \/ ~Microtask
    /\ pending[i].stage = "micro" => ok
    /\ pending[i].stage = "nodev" => ~ok
    /\ MayFail(ok /\ startOk)
    /\ Install(Settle(Cur, i, ok, startOk))
    /\ Ran(IF ok THEN "acquired" ELSE "acquireFailed", i)
    /\ Quiet

\* l.139-145, called by the component
ReleaseMediaStream ==
    /\ Mounted
    /\ Install(releaseMediaStream(Cur))
    /\ Ran("releaseMediaStream", Null)
    /\ Quiet

PauseRecording ==
    /\ Mounted
    /\ Install(pauseRecording(Cur))
    /\ Ran("pauseRecording", mediaRecorder)
    /\ Quiet

ResumeRecording ==
    /\ Mounted
    /\ Install(resumeRecording(Cur))
    /\ Ran("resumeRecording", mediaRecorder)
    /\ Quiet

StopRecording ==
    /\ Mounted
    /\ Install(stopRecording(Cur))
    /\ Ran("stopRecording", mediaRecorder)
    /\ Quiet

\* muteAudio / unmuteAudio of the result, l.330-331
MuteAudio(mute) ==
    /\ Mounted
    /\ Install(muteAudio(Cur, mute))
    /\ Ran(IF mute THEN "muteAudio" ELSE "unmuteAudio", Null)
    /\ Quiet

\* the chunk recorder r fires next
NextChunk(r, size) ==
    [rec |-> r, seq |-> Len(recs[r].emitted) + 1, size |-> size,
     type |-> recs[r].type]

\* recorder r fires dataavailable with chunk c: its listener, if still registered
FireData(s, r, c) ==
    LET s1 == [s EXCEPT !.recs[r].emitted = Append(@, c)]
    IN  IF s.recs[r].listening THEN handleDataAvailable(s1, r, c) ELSE s1

\* a timeslice elapses on a recording recorder
EmitData(r, size) ==
    /\ BrowserTurn
    /\ r \in DOMAIN recs
    /\ recs[r].state = "recording"
    /\ MoreInput
    /\ Install(FireData(Count(Cur, "slices"), r, NextChunk(r, size)))
    /\ Ran("dataavailable", r)
    /\ Quiet

\* the browser cannot go on recording with r: it inactivates the recorder and
\* fires error, dataavailable and stop
RecorderError(r) ==
    /\ BrowserTurn
    /\ r \in DOMAIN recs
    /\ recs[r].state # "inactive"
    /\ MoreInput
    /\ Install([Raise(Cur, "rec") EXCEPT
                   !.recs[r] = [Inactivate(@, "error", <<"error", "data", "stop">>)
                                   EXCEPT !.dispatching = TRUE]])
    /\ Ran("recorderFails", r)
    /\ Quiet

\* the browser fires the next queued event of recorder r
FireQueued(s, r, size) ==
    LET ev == Head(s.recs[r].queue)
        s1 == [s EXCEPT !.recs[r].queue = Tail(@), !.recs[r].dispatching = TRUE]
        on == s.recs[r].listening
    IN  CASE ev = "data" -> FireData(s1, r, NextChunk(r, size))
          [] ev = "stop" -> IF on THEN handleStop(s1, r) ELSE s1
          [] ev = "error" -> IF on THEN handleError(s1, Raised(s1, "rec")) ELSE s1

DeliverEvent(r, size) ==
    /\ r \in DOMAIN recs
    /\ recs[r].queue # <<>>
    /\ recs[r].dispatching \/ BrowserTurn
    /\ Head(recs[r].queue) = "data" \/ size = 0
    /\ Install(FireQueued(Cur, r, size))
    /\ Ran(Head(recs[r].queue), r)
    /\ Quiet

(***************************************************************************)
(* Specification.                                                          *)
(***************************************************************************)
FullBrowser ==
    [hasMediaRecorder |-> TRUE, hasMediaDevices |-> TRUE,
     hasGetDisplayMedia |-> TRUE, hasGetSupportedConstraints |-> TRUE,
     supported |-> {"width"}, typeSupported |-> {DefaultMime}]

CustomStream == [live |-> TRUE, audioOn |-> TRUE, custom |-> TRUE]

\* the hook right after the first render, l.64-91
InitHook ==
    /\ status = "idle"
    /\ error = NoError
    /\ mediaBlob = None
    /\ activeMediaRecorder = Null
    /\ browserSupportError = NoSupportError
    /\ isAudioMuted = FALSE
    /\ errorSeen = NoError
    /\ effectPending = TRUE
    /\ mediaChunks = <<>>
    /\ mediaStream = Null
    /\ mediaRecorder = Null
    /\ streams = IF props.customMediaStream THEN <<CustomStream>> ELSE <<>>
    /\ recs = <<>>
    /\ pending = <<>>
    /\ cb = <<>>
    /\ errs = [raised |-> [o \in Origins |-> 0],
               reported |-> [o \in Origins |-> 0],
               rejected |-> 0]
    /\ calls = [startCalls |-> 0, acquireCalls |-> 0, gum |-> 0, gdm |-> 0,
                recStart |-> 0, slices |-> 0]
    /\ last = [op |-> "mount", arg |-> Null]

Init ==
    /\ props \in [customMediaStream : BOOLEAN, blobOptions : {NoType, "mp4"},
                  recordScreen : {FALSE}, audio : {BoolC(TRUE)},
                  video : {BoolC(FALSE)}, mimeOpt : {NoType}]
    /\ browser = FullBrowser
    /\ InitHook

Next ==
    \/ CapabilityCheck
    \/ Render
    \/ \E startOk \in BOOLEAN : StartRecording(startOk)
    \/ AcquireMediaStream
    \/ \E i \in DOMAIN pending, ok \in BOOLEAN, startOk \in BOOLEAN :
          SettleAcquisition(i, ok, startOk)
    \/ ReleaseMediaStream
    \/ PauseRecording
    \/ ResumeRecording
    \/ StopRecording
    \/ \E r \in DOMAIN recs : EmitData(r, 1)
    \/ \E r \in DOMAIN recs : RecorderError(r)
    \/ \E r \in DOMAIN recs, size \in {0, 1} : DeliverEvent(r, size)

Spec == Init /\ [][Next]_vars

(***************************************************************************)
(* The capability check under every configuration and browser, with the    *)
(* calls that acquire a stream.                                            *)
(***************************************************************************)
CapProps ==
    [customMediaStream : {FALSE}, blobOptions : {NoType},
     recordScreen : BOOLEAN, audio : {BoolC(TRUE), ObjC({"zoom"})},
     video : {BoolC(FALSE), ObjC({"width"}), ObjC({"zoom"})},
     mimeOpt : {NoType, "mkv"}]

CapBrowsers ==
    {FullBrowser,
     [FullBrowser EXCEPT !.hasMediaRecorder = FALSE],
     [FullBrowser EXCEPT !.hasGetDisplayMedia = FALSE],
     [FullBrowser EXCEPT !.hasGetSupportedConstraints = FALSE],
     [FullBrowser EXCEPT !.hasMediaDevices = FALSE,
                         !.hasGetDisplayMedia = FALSE,
                         !.hasGetSupportedConstraints = FALSE]}

InitCap ==
    /\ props \in CapProps
    /\ browser \in CapBrowsers
    /\ InitHook

NextCap ==
    \/ CapabilityCheck
    \/ \E startOk \in BOOLEAN : StartRecording(startOk)
    \/ AcquireMediaStream
    \/ \E i \in DOMAIN pending, ok \in BOOLEAN, startOk \in BOOLEAN :
          SettleAcquisition(i, ok, startOk)

SpecCap == InitCap /\ [][NextCap]_vars

(***************************************************************************)
(* Muting, with the calls that acquire and release streams.                *)
(***************************************************************************)
NextMute ==
    \/ CapabilityCheck
    \/ \E mute \in BOOLEAN : MuteAudio(mute)
    \/ \E startOk \in BOOLEAN : StartRecording(startOk)
    \/ AcquireMediaStream
    \/ \E i \in DOMAIN pending, ok \in BOOLEAN, startOk \in BOOLEAN :
          SettleAcquisition(i, ok, startOk)
    \/ ReleaseMediaStream
    \/ StopRecording

SpecMute == Init /\ [][NextMute]_vars

(***************************************************************************)
(* The capability check run again after the arguments change, with the     *)
(* calls a component can make on a hook that holds nothing.                *)
(***************************************************************************)
NextProps ==
    \/ CapabilityCheck
    \/ ChangeProps(CapProps)
    \/ \E mute \in BOOLEAN : MuteAudio(mute)
    \/ ReleaseMediaStream
    \/ PauseRecording
    \/ ResumeRecording
    \/ StopRecording

SpecProps == InitCap /\ [][NextProps]_vars

TypeOK ==
    /\ status \in MediaRecorderStatus
    /\ mediaStream \in {Null} \cup DOMAIN streams
    /\ mediaRecorder \in {Null} \cup DOMAIN recs
    /\ Len(cb) = Len(recs)

(***************************************************************************)
(* Properties.                                                             *)
(***************************************************************************)
\* recorder r's stop listener runs in this step
HandleStopRuns(r) ==
    /\ r \in DOMAIN recs
    /\ recs[r].queue # <<>>
    /\ Head(recs[r].queue) = "stop"
    /\ recs[r].listening
    /\ DeliverEvent(r, 0)

\* the chunks of non-zero size recorder r fired, in order
NonEmptyChunks(r) == SelectSeq(recs[r].emitted, LAMBDA c : c.size # 0)

\* C1: stopRecording called while no recorder is held (mediaRecorder.current is
\* null) changes neither status, error, mediaBlob, the collected chunks nor the
\* held stream, stops no track, and invokes no callback.
C1_StopBeforeStartIsNoOp ==
    [][(mediaRecorder = Null /\ StopRecording) =>
          UNCHANGED <<status, error, mediaBlob, mediaChunks, mediaStream,
                      streams, recs, cb, errs>>]_vars

\* stopRecording has run with no recorder held, while a stream was held
C1_Witness ==
    /\ last = [op |-> "stopRecording", arg |-> Null]
    /\ mediaRecorder = Null
    /\ mediaStream # Null
    /\ streams[mediaStream].live

\* C2 (as claimed): stopRecording on a recording or paused recorder leaves status
\* "stopping", with a caller-supplied stream and with an acquired one alike, and
\* the chunks fired before the stop notification do not change it.
C2_StoppingUntilStopHandled ==
    [][/\ (/\ mediaRecorder # Null
           /\ recs[mediaRecorder].state # "inactive"
           /\ StopRecording) => status' = "stopping"
       /\ (/\ status = "stopping"
           /\ \E r \in DOMAIN recs :
                 /\ recs[r].queue # <<>>
                 /\ Head(recs[r].queue) = "data"
                 /\ \E size \in {0, 1} : DeliverEvent(r, size))
          => status' = "stopping"]_vars

\* C3 (as claimed): a recorder that stopRecording stopped has, once its queued
\* stop event was fired, had handleStop run for it: onStop was invoked exactly once.
C3_StopIsHandled ==
    \A r \in DOMAIN recs :
        (recs[r].ended = "stop" /\ recs[r].queue = <<>>) =>
            Len(cb[r].onStop) = 1

\* C4 (as claimed): the artifact handed to onStop for a session is made of the
\* non-empty chunks its recorder fired, all of them, once each, in order.
C4_ArtifactIsSessionChunks ==
    \A r \in DOMAIN recs :
        \A k \in DOMAIN cb[r].onStop :
            LET blob == cb[r].onStop[k].mediaBlob
            IN  IF NonEmptyChunks(r) = <<>>
                THEN blob = None
                ELSE blob # None /\ blob[1].parts = NonEmptyChunks(r)

C6_BlobTypeIsFirstChunkType ==
    \A r \in DOMAIN cb :
        \A k \in DOMAIN cb[r].onStop :
            LET e == cb[r].onStop[k]
            IN  e.mediaBlob # None =>
                    /\ e.mediaBlob[1].type = e.mediaBlob[1].parts[1].type
                    /\ e.mimeType = e.mediaBlob[1].type

\* C6 (amended): the artifact has the type blobOptions names when it names one,
\* and the type of the first collected chunk otherwise; the mimeType reported
\* to onStop is the type of the first collected chunk in both cases.
C6_BlobTypeUnlessOverridden ==
    \A r \in DOMAIN cb :
        \A k \in DOMAIN cb[r].onStop :
            LET e == cb[r].onStop[k]
            IN  e.mediaBlob # None =>
                    /\ e.mediaBlob[1].type =
                          IF props.blobOptions # NoType
                          THEN props.blobOptions
                          ELSE e.mediaBlob[1].parts[1].type
                    /\ e.mimeType = e.mediaBlob[1].parts[1].type

\* an artifact of two chunks assembled under blobOptions that name a type
C6_Witness ==
    /\ props.blobOptions # NoType
    /\ mediaBlob # None
    /\ Len(mediaBlob[1].parts) = 2
    /\ mediaBlob[1].type = props.blobOptions
    /\ mediaBlob[1].type # mediaBlob[1].parts[1].type
    /\ \E r \in DOMAIN cb :
          /\ cb[r].onStop # <<>>
          /\ cb[r].onStop[1].mediaBlob = mediaBlob
          /\ cb[r].onStop[1].mimeType = mediaBlob[1].parts[1].type

\* mediaStreamConstraints.video or .audio is an object with a constraint name
\* that mediaDevices.getSupportedConstraints() does not list
UnsupportedRequested ==
    /\ browser.hasMediaDevices
    /\ browser.hasGetSupportedConstraints
    /\ \/ isObject(props.video) /\ ~(props.video.keys \subseteq browser.supported)
       \/ isObject(props.audio) /\ ~(props.audio.keys \subseteq browser.supported)

\* C7 (as claimed): with an unsupported constraint requested, the check sets
\* browserSupportError, and while it is set no getUserMedia or getDisplayMedia
\* call is made.
C7_NoAcquisitionWhenUnsupported ==
    [][/\ (UnsupportedRequested /\ CapabilityCheck) =>
              browserSupportError' # NoSupportError
       /\ (UnsupportedRequested /\ browserSupportError # NoSupportError) =>
              (calls'.gum = calls.gum /\ calls'.gdm = calls.gdm)]_vars

\* C7 (amended): with an unsupported constraint requested, browserSupportError
\* is set from the moment the capability check has run; the error is a report
\* only, and does not keep acquireMediaStream or startRecording from acquiring.
C7_UnsupportedIsReported ==
    (~effectPending /\ UnsupportedRequested) =>
        browserSupportError # NoSupportError

\* the check has reported the unsupported constraint of a first configuration,
\* and a stream has been acquired nonetheless
C7_Witness ==
    /\ ~effectPending
    /\ last.op = "acquired"
    /\ UnsupportedRequested
    /\ browserSupportError = SupportError("constraints", {"zoom"})
    /\ calls.gum + calls.gdm > 0
    /\ mediaStream # Null

\* C8 (as claimed): every error of acquisition, of the recorder's construction
\* or start, and every recorder error event, is stored in `error` and passed
\* to onError exactly once, and startRecording never rejects.
C8_ErrorsStoredAndReported ==
    [][/\ errs'.rejected = errs.rejected
       /\ \A o \in {"acq", "ctor", "start"} :
             errs'.raised[o] # errs.raised[o] =>
                 /\ error' = [origin |-> o, n |-> errs'.raised[o]]
                 /\ errs'.reported[o] = errs.reported[o] + 1
       /\ \A r \in DOMAIN recs :
             (/\ recs[r].queue # <<>>
              /\ Head(recs[r].queue) = "error"
              /\ DeliverEvent(r, 0)) =>
                 /\ error' = [origin |-> "rec", n |-> errs.raised["rec"]]
                 /\ errs'.reported["rec"] = errs.reported["rec"] + 1]_vars

\* C9: a failed acquisition leaves status "failed", creates no recorder and
\* invokes no onStart; a throwing rec.start and a recorder error event leave
\* status "idle"; and the hook makes no attempt of its own: no browser call in
\* the step that handles an error other than the failing one itself, never more
\* acquisitions than calls that acquire, never more rec.start than startRecording.
C9_StatusByErrorOrigin ==
    [][/\ errs'.raised["acq"] # errs.raised["acq"] =>
              /\ status' = "failed"
              /\ recs' = recs
              /\ cb' = cb
              /\ mediaRecorder' = mediaRecorder
              /\ calls' = calls
       /\ errs'.raised["start"] # errs.raised["start"] =>
              /\ status' = "idle"
              /\ calls'.recStart = calls.recStart + 1
              /\ calls'.gum = calls.gum /\ calls'.gdm = calls.gdm
       /\ \A r \in DOMAIN recs :
             (/\ recs[r].queue # <<>>
              /\ Head(recs[r].queue) = "error"
              /\ DeliverEvent(r, 0)) =>
                 /\ status' = "idle"
                 /\ calls' = calls
       /\ calls'.recStart <= calls'.startCalls
       /\ calls'.gum <= calls'.startCalls + calls'.acquireCalls
       /\ calls'.gdm <= calls'.startCalls + calls'.acquireCalls]_vars

\* startRecording has failed to acquire a stream
C9_Witness ==
    /\ last.op = "acquireFailed"
    /\ calls.startCalls = 1
    /\ calls.acquireCalls = 0
    /\ error.origin = "acq"
    /\ status = "failed"
    /\ recs = <<>>

\* C10 (as claimed): at most one recorder of the hook is recording or paused.
C10_OneActiveRecorder ==
    Cardinality({r \in DOMAIN recs : recs[r].state # "inactive"}) <= 1

\* C11 (as claimed): a stream the caller supplied is never stopped by the hook,
\* whatever is called and whatever fails; stopRecording leaves it held, and a
\* startRecording that finds it held records from it with no acquisition.
C11_CustomStreamNeverStopped ==
    [][props.customMediaStream =>
          /\ streams'[1].live
          /\ (StopRecording /\ mediaRecorder # Null) => mediaStream' = 1
          /\ ((\E startOk \in BOOLEAN : StartRecording(startOk))
                  /\ mediaStream # Null) =>
                 /\ pending' = pending
                 /\ calls'.recStart = calls.recStart + 1
          /\ calls'.gum = calls.gum
          /\ calls'.gdm = calls.gdm]_vars

\* C12 (as claimed): without customMediaStream, stopRecording stops the tracks
\* of the held stream and clears the handle, and every stream the hook acquired
\* whose tracks are live is the one it holds.
C12_AcquiredStreamsReleased ==
    [][~props.customMediaStream =>
          /\ (StopRecording /\ mediaRecorder # Null) =>
                 /\ mediaStream' = Null
                 /\ mediaStream # Null => ~streams'[mediaStream].live
          /\ \A id \in DOMAIN streams' :
                 streams'[id].live => mediaStream' = id]_vars

\* C13 (as claimed): every rec.start is made on a recorder constructed in that
\* run, which becomes the recorder held and exposed; stopRecording clears both
\* mediaRecorder.current and activeMediaRecorder, and activeMediaRecorder stays
\* null until a startRecording constructs the next recorder.
C13_RecorderDiscardedOnStop ==
    [][/\ calls'.recStart # calls.recStart =>
              /\ Len(recs') = Len(recs) + 1
              /\ mediaRecorder' = Len(recs')
              /\ activeMediaRecorder' = Len(recs')
       /\ (StopRecording /\ mediaRecorder # Null) =>
              /\ mediaRecorder' = Null
              /\ activeMediaRecorder' = Null
       /\ (activeMediaRecorder = Null /\ activeMediaRecorder' # Null) =>
              calls'.recStart # calls.recStart]_vars

\* C14 (as claimed): every change of the exposed status follows the stated
\* state machine (StatusEdge). A run that sets the status twice shows two edges
\* in a row; "recording" is never shown right after idle, stopped or failed,
\* and "stopped" only after "stopping".
C14_StatusFollowsStateMachine ==
    [][LET StatusEdge(a, b) ==
               \/ a \in {"idle", "stopped", "failed"} /\ b = "acquiring_media"
               \/ a = "acquiring_media" /\ b \in {"ready", "failed"}
               \/ a = "ready" /\ b = "recording"
               \/ a = "recording" /\ b = "paused"
               \/ a = "paused" /\ b = "recording"
               \/ a \in {"recording", "paused"} /\ b = "stopping"
               \/ a = "stopping" /\ b = "stopped"
               \/ b = "idle"
           StatusFollows(a, b) ==
               /\ \/ StatusEdge(a, b)
                  \/ \E m \in MediaRecorderStatus :
                        StatusEdge(a, m) /\ StatusEdge(m, b)
               /\ b = "recording" => a \notin {"idle", "stopped", "failed"}
               /\ b = "stopped" => a = "stopping"
       IN  status' # status => StatusFollows(status, status')]_vars

\* C15 (as claimed): when stopRecording was called while a startRecording was
\* awaiting getUserMedia, the resolution of getUserMedia starts no recorder,
\* invokes no onStart, does not set status "recording" and leaves no stream held.
C15_StopCancelsPendingStart ==
    [][\A i \in DOMAIN pending :
          (/\ last.op = "stopRecording"
           /\ pending[i].kind = "start"
           /\ pending[i].stage = "user"
           /\ SettleAcquisition(i, TRUE, TRUE)) =>
              /\ recs' = recs
              /\ cb' = cb
              /\ status' # "recording"
              /\ mediaStream' = Null]_vars

\* C16 (as claimed): startRecording on a held stream empties the chunk list, and
\* whatever the order of a stopped recorder's last events and the next
\* startRecording, every artifact handed to onStop for a recorder is made of
\* chunks that recorder fired, and holds every non-empty chunk it fired.
C16_SessionsAreIsolated ==
    [][LET SessionsIsolated ==
               \A r \in DOMAIN recs :
                   \A k \in DOMAIN cb[r].onStop :
                       LET blob == cb[r].onStop[k].mediaBlob
                           parts == IF blob = None THEN <<>> ELSE blob[1].parts
                       IN  /\ \A j \in DOMAIN parts : parts[j].rec = r
                           /\ \A j \in DOMAIN recs[r].emitted :
                                 recs[r].emitted[j].size # 0 =>
                                     \E m \in DOMAIN parts :
                                         parts[m] = recs[r].emitted[j]
       IN  /\ ((\E startOk \in BOOLEAN : StartRecording(startOk))
                  /\ mediaStream # Null) => mediaChunks' = <<>>
           /\ SessionsIsolated']_vars

\* C17: pauseRecording acts only on a held recorder whose state is "recording":
\* it pauses it and sets status "paused"; resumeRecording acts only on a held
\* recorder whose state is "paused": it resumes it and sets status "recording";
\* otherwise each changes neither the status nor any recorder. Neither touches
\* the recorder held, the collected chunks, the stream or the callbacks, so a
\* resumeRecording right after a pauseRecording that paused is back at
\* "recording" with the same recorder and the same chunks.
C17_PauseResumeGuarded ==
    [][/\ PauseRecording =>
              IF mediaRecorder # Null /\ recs[mediaRecorder].state = "recording"
              THEN /\ status' = "paused"
                   /\ recs' = [recs EXCEPT ![mediaRecorder].state = "paused"]
              ELSE UNCHANGED <<status, recs>>
       /\ ResumeRecording =>
              IF mediaRecorder # Null /\ recs[mediaRecorder].state = "paused"
              THEN /\ status' = "recording"
                   /\ recs' = [recs EXCEPT ![mediaRecorder].state = "recording"]
              ELSE UNCHANGED <<status, recs>>
       /\ (PauseRecording \/ ResumeRecording) =>
              UNCHANGED <<mediaRecorder, activeMediaRecorder, mediaChunks,
                          mediaStream, streams, mediaBlob, error, cb, errs>>
       /\ (/\ last.op = "pauseRecording"
           /\ mediaRecorder # Null
           /\ recs[mediaRecorder].state = "paused"
           /\ ResumeRecording) =>
              /\ status' = "recording"
              /\ recs'[mediaRecorder'].state = "recording"
              /\ mediaRecorder' = mediaRecorder
              /\ mediaChunks' = mediaChunks]_vars

\* pauseRecording has paused a recorder that had delivered a chunk
C17_Witness ==
    /\ last.op = "pauseRecording"
    /\ mediaRecorder # Null
    /\ last.arg = mediaRecorder
    /\ recs[mediaRecorder].state = "paused"
    /\ status = "paused"
    /\ mediaChunks # <<>>

\* C18 (as claimed): a startRecording called in status "failed", or "idle" with
\* an error set, clears the error; when it finds a live stream held it ends in
\* "recording" with onStart invoked once for a new recorder, and when it acquires
\* one, the resolution of getUserMedia ends so, with the error still null. And
\* a stopRecording after a failed rec.start or a recorder error event leaves no
\* recorder held and no acquired stream held.
C18_FailureIsRecoverable ==
    [][/\ (/\ error # NoError
           /\ status \in {"failed", "idle"}
           /\ mediaStream # Null => streams[mediaStream].live
           /\ StartRecording(TRUE)) =>
              /\ error' = NoError
              /\ mediaStream # Null =>
                    /\ status' = "recording"
                    /\ Len(recs') = Len(recs) + 1
                    /\ cb'[Len(recs')].onStart = 1
       /\ \A i \in DOMAIN pending :
             (/\ pending[i].kind = "start"
              /\ pending[i].stage = "user"
              /\ SettleAcquisition(i, TRUE, TRUE)) =>
                 /\ status' = "recording"
                 /\ error' = NoError
                 /\ Len(recs') = Len(recs) + 1
                 /\ cb'[Len(recs')].onStart = 1
       /\ (/\ error.origin \in {"start", "rec"}
           /\ mediaRecorder # Null
           /\ recs[mediaRecorder].state = "inactive"
           /\ StopRecording) =>
              /\ mediaRecorder' = Null
              /\ ~props.customMediaStream => mediaStream' = Null]_vars

\* C20 (as claimed): for every recorder, onStart was invoked once if rec.start
\* succeeded and not otherwise, and before any onDataAvailable or onStop of its
\* session; the chunks passed to onDataAvailable are the chunks the recorder
\* fired, empty ones included, each once and in order; onStop is invoked at
\* most once, and no onDataAvailable follows it.
C20_CallbacksOrdered ==
    [][\A r \in DOMAIN recs' :
          LET started == recs'[r].state # "inactive" \/ recs'[r].ended # ""
          IN  /\ cb'[r].onStart = IF started THEN 1 ELSE 0
              /\ (cb'[r].onData # <<>> \/ cb'[r].onStop # <<>>) =>
                     cb'[r].onStart = 1
              /\ cb'[r].onData = recs'[r].emitted
              /\ Len(cb'[r].onStop) <= 1
              /\ (r \in DOMAIN recs /\ cb[r].onStop # <<>>) =>
                     cb'[r].onData = cb[r].onData]_vars

\* C19 (as claimed): muteAudio leaves isAudioMuted true and the audio tracks of
\* the held stream disabled, unmuteAudio leaves isAudioMuted false and the tracks
\* enabled, and in every state isAudioMuted is true exactly when the audio
\* tracks of the held stream are disabled.
C19_MutedAgreesWithTracks ==
    [][/\ MuteAudio(TRUE) => isAudioMuted'
       /\ MuteAudio(FALSE) => ~isAudioMuted'
       /\ mediaStream' # Null =>
              (isAudioMuted' <=> ~streams'[mediaStream'].audioOn)]_vars

\* C21 (as claimed): in every state the exposed status is "recording" exactly
\* when the recorder held (mediaRecorder.current) is in state recording, and
\* "paused" exactly when it is in state paused.
C21_StatusAgreesWithRecorder ==
    /\ status = "recording" <=>
          (mediaRecorder # Null /\ recs[mediaRecorder].state = "recording")
    /\ status = "paused" <=>
          (mediaRecorder # Null /\ recs[mediaRecorder].state = "paused")

\* C22 (as claimed): once set, browserSupportError is never null again, whatever
\* is called and however often the check runs again; and a run of the check
\* sets the message of the first condition that fails, in the order
\* MediaRecorder missing, screen capture missing, mediaDevices missing,
\* getSupportedConstraints missing, video constraints, audio constraints, MIME
\* type, and sets nothing when none fails.
C22_SupportErrorMonotone ==
    [][LET Unsupported(c) == {n \in c.keys : n \notin browser.supported}
           FirstFailing ==
               IF ~browser.hasMediaRecorder
               THEN SupportError("MediaRecorder", {})
               ELSE IF props.recordScreen
                       /\ ~(browser.hasMediaDevices /\ browser.hasGetDisplayMedia)
               THEN SupportError("screen", {})
               ELSE IF ~browser.hasMediaDevices
               THEN SupportError("mediaDevices", {})
               ELSE IF ~browser.hasGetSupportedConstraints
               THEN SupportError("getSupportedConstraints", {})
               ELSE IF props.video.obj /\ Unsupported(props.video) # {}
               THEN SupportError("constraints", Unsupported(props.video))
               ELSE IF props.audio.obj /\ Unsupported(props.audio) # {}
               THEN SupportError("constraints", Unsupported(props.audio))
               ELSE IF props.mimeOpt # NoType
                       /\ props.mimeOpt \notin browser.typeSupported
               THEN SupportError("mimeType", {})
               ELSE NoSupportError
       IN  /\ browserSupportError # NoSupportError =>
                  browserSupportError' # NoSupportError
           /\ CapabilityCheck =>
                  browserSupportError' =
                      IF FirstFailing # NoSupportError
                      THEN FirstFailing
                      ELSE browserSupportError]_vars

====
